---- MODULE Spec2Model ----
(***************************************************************************)
(* Model of sum_squares.py: decomposition of a non-negative integer into   *)
(* a sum of 2, 3 or 4 squares, with the process-wide set noSum2sq of       *)
(* numbers known to have no two-square representation.                     *)
(*                                                                         *)
(* The state is the module-level set noSum2sq together with the arguments  *)
(* and the outcome of the most recent top-level call.  One action per      *)
(* entry point (decomposeBy2, decomposeBy3, decomposeBy4); each action is  *)
(* the whole call, nested calls and cache insertions included.             *)
(***************************************************************************)
EXTENDS Integers, Sequences, FiniteSets

VARIABLES noSum2sq, fn, num, a_max, res, cands, cacheHit

vars == <<noSum2sq, fn, num, a_max, res, cands, cacheHit>>

\* Largest number passed to a top-level call.
MaxNum == 19
\* Largest upper bound passed to a top-level call (0 = no bound).
MaxA == 4
\* Largest number passed to decomposeBy3 in the three-square specification.
MaxNum3 == 28

----------------------------------------------------------------------------
(* Library primitives used by the code *)

\* math.isqrt: floor of the square root of a non-negative integer.
isqrt(n) == CHOOSE r \in 0..n : r * r <= n /\ (r + 1) * (r + 1) > n

IsPrime(p) == p >= 2 /\ \A d \in 2..(p - 1) : p % d # 0

RECURSIVE Exponent(_, _)
Exponent(p, n) == IF n % p = 0 THEN 1 + Exponent(p, n \div p) ELSE 0

\* sympy.ntheory.factorint: mapping prime -> exponent, for n >= 2.
factorint(n) == [p \in {q \in 2..n : IsPrime(q) /\ n % q = 0} |-> Exponent(p, n)]

\* range(a, b - 1, -1): a, a-1, ..., b (empty when a < b).
range(a, b) == [k \in 1..(IF a >= b THEN a - b + 1 ELSE 0) |-> a - k + 1]

\* "if a_max != 0 and a > a_max: a = a_max"
clamp(a, amax) == IF amax # 0 /\ a > amax THEN amax ELSE a

----------------------------------------------------------------------------
(* decomposeBy2 *)

\* Faulty variant: the parity test "k & 1 == 1" is dropped.
fermatBlocked_anyPower(n) ==
    LET p_fact == factorint(n)
    IN  \E p \in DOMAIN p_fact : p % 4 = 3

\* Lines 28-30: some prime p == 3 mod 4 occurs in num to an odd power.
fermatBlocked(n) ==
    LET p_fact == factorint(n)
    IN  \E p \in DOMAIN p_fact : p % 4 = 3 /\ p_fact[p] % 2 = 1

\* Faulty variant: the "- 1" under the root is dropped (floor + 1 instead of ceil).
lowB2_floorPlus1(n) == isqrt(n \div 2) + 1

\* Line 36: b = isqrt((num >> 1) - 1) + 1, for num >= 2.
lowB2(n) == isqrt((n \div 2) - 1) + 1

\* Faulty variant: the test "s * s == n" is dropped.
step2_noSquareTest(n0, i, acc) ==
    LET n == n0 - i * i
    IN  IF n = 0 THEN Append(acc, <<i>>)
        ELSE Append(acc, <<i, isqrt(n)>>)

\* Lines 42-49: body of the candidate loop of decomposeBy2.
step2(n0, i, acc) ==
    LET n == n0 - i * i
    IN  IF n = 0 THEN Append(acc, <<i>>)
        ELSE LET s == isqrt(n)
             IN  IF s * s = n THEN Append(acc, <<i, s>>) ELSE acc

RECURSIVE loop2(_, _, _, _)
\* Lines 41-49: for i in range(a, b - 1, -1).
loop2(n0, is, k, acc) ==
    IF k > Len(is) THEN acc
    ELSE loop2(n0, is, k + 1, step2(n0, is[k], acc))

\* Result of a call: returned list, cache after the call, candidates of the
\* call's own loop (empty when the loop is not reached), and whether some
\* decomposeBy2 invocation returned at the cache test (line 18).
Ret(r, c, cs, h) == [res |-> r, cache |-> c, cands |-> cs, hit |-> h]

\* Faulty variant: a search that finds nothing also records num as infeasible.
decomposeBy2_cacheEmptySearch(n0, amax, cache) ==
    IF n0 % 4 = 3 THEN Ret(<<>>, cache, <<>>, FALSE)
    ELSE IF n0 \in cache THEN Ret(<<>>, cache, <<>>, TRUE)
    ELSE IF n0 = 0 THEN Ret(<< <<>> >>, cache, <<>>, FALSE)
    ELSE IF n0 = 1 THEN Ret(<< <<1>> >>, cache, <<>>, FALSE)
    ELSE IF fermatBlocked(n0) THEN Ret(<<>>, cache \cup {n0}, <<>>, FALSE)
    ELSE LET a  == clamp(isqrt(n0), amax)
             b  == lowB2(n0)
             is == range(a, b)
             r  == loop2(n0, is, 1, <<>>)
         IN  Ret(r, IF r = <<>> THEN cache \cup {n0} ELSE cache, is, FALSE)

\* Faulty variant: the early return for num == 3 mod 4 (lines 14-15) is missing.
decomposeBy2_noMod4Test(n0, amax, cache) ==
    IF n0 \in cache THEN Ret(<<>>, cache, <<>>, TRUE)
    ELSE IF n0 = 0 THEN Ret(<< <<>> >>, cache, <<>>, FALSE)
    ELSE IF n0 = 1 THEN Ret(<< <<1>> >>, cache, <<>>, FALSE)
    ELSE IF fermatBlocked(n0) THEN Ret(<<>>, cache \cup {n0}, <<>>, FALSE)
    ELSE LET a  == clamp(isqrt(n0), amax)
             b  == lowB2(n0)
             is == range(a, b)
         IN  Ret(loop2(n0, is, 1, <<>>), cache, is, FALSE)

\* Lines 12-50.
decomposeBy2(n0, amax, cache) ==
    IF n0 % 4 = 3 THEN Ret(<<>>, cache, <<>>, FALSE)
    ELSE IF n0 \in cache THEN Ret(<<>>, cache, <<>>, TRUE)
    ELSE IF n0 = 0 THEN Ret(<< <<>> >>, cache, <<>>, FALSE)
    ELSE IF n0 = 1 THEN Ret(<< <<1>> >>, cache, <<>>, FALSE)
    ELSE IF fermatBlocked(n0) THEN Ret(<<>>, cache \cup {n0}, <<>>, FALSE)
    ELSE LET a  == clamp(isqrt(n0), amax)
             b  == lowB2(n0)
             is == range(a, b)
         IN  Ret(loop2(n0, is, 1, <<>>), cache, is, FALSE)

----------------------------------------------------------------------------
(* decomposeBy3 *)

RECURSIVE strip4(_)
\* Lines 62-63: while m & 3 == 0: m >>= 2   (entered with m >= 1 only).
strip4(m) == IF m % 4 = 0 THEN strip4(m \div 4) ELSE m

\* Faulty variant: the residue is tested modulo 4 as in decomposeBy2.
legendreBlocked_mod4(n) == strip4(n) % 4 = 3

\* Lines 61-64: num = 4**a * (8 * b + 7).
legendreBlocked(n) == strip4(n) % 8 = 7

\* Line 70: b = isqrt(num // 3 - 1) + 1 if num >= 3 else 1.
lowB3(n) == IF n >= 3 THEN isqrt((n \div 3) - 1) + 1 ELSE 1

\* Lines 79-81: for s in s2: res.append((i, *s)).
extend3(acc, i, s2) == acc \o [k \in 1..Len(s2) |-> <<i>> \o s2[k]]

RECURSIVE loop3(_, _, _, _)
\* Lines 75-81: for i in range(a, b - 1, -1).
loop3(n0, is, k, acc) ==
    IF k > Len(is) THEN acc
    ELSE LET i  == is[k]
             r2 == decomposeBy2(n0 - i * i, i, acc.cache)
         IN  loop3(n0, is, k + 1,
                   Ret(extend3(acc.res, i, r2.res), r2.cache, is,
                       acc.hit \/ r2.hit))

\* Lines 53-82.
decomposeBy3(n0, amax, cache) ==
    IF n0 = 0 THEN Ret(<< <<>> >>, cache, <<>>, FALSE)
    ELSE IF legendreBlocked(n0) THEN Ret(<<>>, cache, <<>>, FALSE)
    ELSE LET a  == clamp(isqrt(n0), amax)
             b  == lowB3(n0)
             is == range(a, b)
         IN  loop3(n0, is, 1, Ret(<<>>, cache, is, FALSE))

----------------------------------------------------------------------------
(* decomposeBy4 *)

\* Faulty variant: the default for num < 4 is 0 instead of 1.
lowB4_defaultZero(n) == IF n >= 4 THEN isqrt((n \div 4) - 1) + 1 ELSE 0

\* Faulty variant: the "- 1" under the root is dropped (floor + 1 instead of ceil).
lowB4_floorPlus1(n) == IF n >= 4 THEN isqrt(n \div 4) + 1 ELSE 1

\* Line 91: b = isqrt((num >> 2) - 1) + 1 if num >= 4 else 1.
lowB4(n) == IF n >= 4 THEN isqrt((n \div 4) - 1) + 1 ELSE 1

\* Faulty variant: every appended tuple is built from the first element of s3.
extend4_firstOnly(acc, i, s3) == acc \o [k \in 1..Len(s3) |-> <<i>> \o s3[1]]

\* Lines 100-102: for s in s3: res.append((i, *s)).
extend4(acc, i, s3) == acc \o [k \in 1..Len(s3) |-> <<i>> \o s3[k]]

RECURSIVE loop4(_, _, _, _)
\* Lines 96-102: for i in range(a, b - 1, -1).
loop4(n0, is, k, acc) ==
    IF k > Len(is) THEN acc
    ELSE LET i  == is[k]
             r3 == decomposeBy3(n0 - i * i, i, acc.cache)
         IN  loop4(n0, is, k + 1,
                   Ret(extend4(acc.res, i, r3.res), r3.cache, is,
                       acc.hit \/ r3.hit))

\* Lines 85-103.
decomposeBy4(n0, amax, cache) ==
    LET a  == clamp(isqrt(n0), amax)
        b  == lowB4(n0)
        is == range(a, b)
    IN  loop4(n0, is, 1, Ret(<<>>, cache, is, FALSE))

----------------------------------------------------------------------------
(* Test helpers (tests/test_sum_squares.py) *)

PERMUTATIONS ==
    << <<12, 6>>,
       <<24, 12, 12, 4>>,
       <<24, 12, 12, 4, 12, 6, 4, 1>> >>

divisors(n) == {d \in 1..n : n % d = 0}

RECURSIVE SumSet(_)
SumSet(S) == IF S = {} THEN 0
             ELSE LET x == CHOOSE y \in S : TRUE IN x + SumSet(S \ {x})

\* Jacobi's four-square theorem.
calcDecompositionsBy4Count(n) ==
    IF n % 2 = 1 THEN 8 * SumSet(divisors(n))
    ELSE 24 * SumSet({d \in divisors(n) : d % 2 = 1})

RECURSIVE eqMask(_, _, _)
\* for i in range(0, nzc - 1): eq *= 2; eq += 1 if d[i] == d[i + 1] else 0
eqMask(d, k, eq) ==
    IF k > Len(d) - 1 THEN eq
    ELSE eqMask(d, k + 1, 2 * eq + (IF d[k] = d[k + 1] THEN 1 ELSE 0))

countRepresentationsOfDeco4(d) ==
    LET nzc == Len(d)
    IN  IF nzc = 1 THEN 8
        ELSE (2 ^ nzc) * PERMUTATIONS[nzc - 1][eqMask(d, 1, 0) + 1]

RECURSIVE expandedCount(_, _)
\* Sum of countRepresentationsOfDeco4 over the first k tuples of deco.
expandedCount(deco, k) ==
    IF k = 0 THEN 0
    ELSE countRepresentationsOfDeco4(deco[k]) + expandedCount(deco, k - 1)

----------------------------------------------------------------------------
(* The state machine *)

Init ==
    /\ noSum2sq = {}
    /\ fn = 0
    /\ num = 0
    /\ a_max = 0
    /\ res = <<>>
    /\ cands = <<>>
    /\ cacheHit = FALSE

CallDecomposeBy2 ==
    \E n \in 0..MaxNum, amax \in 0..MaxA :
        LET r == decomposeBy2(n, amax, noSum2sq)
        IN  /\ fn' = 2
            /\ num' = n
            /\ a_max' = amax
            /\ res' = r.res
            /\ cands' = r.cands
            /\ cacheHit' = r.hit
            /\ noSum2sq' = r.cache

CallDecomposeBy3 ==
    \E n \in 0..MaxNum, amax \in 0..MaxA :
        LET r == decomposeBy3(n, amax, noSum2sq)
        IN  /\ fn' = 3
            /\ num' = n
            /\ a_max' = amax
            /\ res' = r.res
            /\ cands' = r.cands
            /\ cacheHit' = r.hit
            /\ noSum2sq' = r.cache

CallDecomposeBy4 ==
    \E n \in 1..MaxNum, amax \in 0..MaxA :
        LET r == decomposeBy4(n, amax, noSum2sq)
        IN  /\ fn' = 4
            /\ num' = n
            /\ a_max' = amax
            /\ res' = r.res
            /\ cands' = r.cands
            /\ cacheHit' = r.hit
            /\ noSum2sq' = r.cache

Next == CallDecomposeBy2 \/ CallDecomposeBy3 \/ CallDecomposeBy4

Spec == Init /\ [][Next]_vars

\* The three-square entry point alone, over a wider range of numbers.
CallDecomposeBy3Wide ==
    \E n \in 0..MaxNum3, amax \in 0..MaxA :
        LET r == decomposeBy3(n, amax, noSum2sq)
        IN  /\ fn' = 3
            /\ num' = n
            /\ a_max' = amax
            /\ res' = r.res
            /\ cands' = r.cands
            /\ cacheHit' = r.hit
            /\ noSum2sq' = r.cache

Next3 == CallDecomposeBy3Wide

Spec3 == Init /\ [][Next3]_vars

----------------------------------------------------------------------------
(* Reference notions the properties are stated with *)

ToSet(seq) == {seq[k] : k \in 1..Len(seq)}

RECURSIVE SumSq(_, _)
SumSq(d, k) == IF k = 0 THEN 0 ELSE d[k] * d[k] + SumSq(d, k - 1)

NonAscending(d) == \A k \in 1..(Len(d) - 1) : d[k] >= d[k + 1]

Roots(n) == {r \in 1..n : r * r <= n}

\* Every non-ascending tuple of at most K positive integers whose squares
\* sum to n.
Tuples(K, n) ==
    {d \in UNION {[1..l -> Roots(n)] : l \in 0..K} :
        NonAscending(d) /\ SumSq(d, Len(d)) = n}

RECURSIVE OddPower(_, _)
\* p divides n to an odd power.
OddPower(p, n) == n % p = 0 /\ ~OddPower(p, n \div p)

\* Some prime p == 3 mod 4 divides n to an odd power.
Fermat(n) == \E p \in 2..n : IsPrime(p) /\ p % 4 = 3 /\ OddPower(p, n)

RECURSIVE IsPow4(_)
IsPow4(q) == q = 1 \/ (q > 1 /\ q % 4 = 0 /\ IsPow4(q \div 4))

\* n = 4^a * (8b + 7) for some a, b >= 0.
Legendre(n) == \E q \in 1..n, b \in 0..n : IsPow4(q) /\ n = q * (8 * b + 7)

\* The smallest b with K * b * b >= n, i.e. ceil(sqrt(n / K)).
CeilSqrtDiv(n, K) == CHOOSE b \in 0..n : K * b * b >= n /\ \A c \in 0..(b - 1) : K * c * c < n

\* The same call made in a process whose cache is empty.
Fresh(K, n, amax) ==
    CASE K = 2 -> decomposeBy2(n, amax, {})
      [] K = 3 -> decomposeBy3(n, amax, {})
      [] K = 4 -> decomposeBy4(n, amax, {})

----------------------------------------------------------------------------
(* Properties *)

\* C1 (soundness): every tuple returned by decomposeByK(num, a_max) has
\* squares summing to num, is in non-ascending order and has at most K
\* elements.
C1_Soundness ==
    fn # 0 =>
        \A k \in 1..Len(res) :
            /\ SumSq(res[k], Len(res[k])) = num
            /\ NonAscending(res[k])
            /\ Len(res[k]) <= fn

C1_Witness == fn = 4 /\ a_max # 0 /\ Len(res) >= 2 /\ \E k \in 1..Len(res) : Len(res[k]) = 4

\* C2 (completeness, K = 4): the sum over the tuples returned by
\* decomposeBy4(num), num >= 1, no upper bound, of their signed and permuted
\* multiplicities equals Jacobi's count.
C2_Jacobi ==
    (fn = 4 /\ a_max = 0) =>
        expandedCount(res, Len(res)) = calcDecompositionsBy4Count(num)

C2_Witness == fn = 4 /\ a_max = 0 /\ num % 2 = 0 /\ Len(res) >= 3 /\ noSum2sq # {}

\* C3 (completeness, K = 2 and 3): with no upper bound the returned list
\* contains every non-ascending tuple of at most K positive integers whose
\* squares sum to num, whatever the cache holds.
C3_Complete ==
    (fn \in {2, 3} /\ a_max = 0) => Tuples(fn, num) \subseteq ToSet(res)

C3_Witness == fn = 3 /\ a_max = 0 /\ cacheHit /\ res # <<>>

\* C4 (feasibility, K = 2): for num >= 2 with no upper bound the result is
\* empty iff some prime p == 3 mod 4 divides num to an odd power; 0 gives
\* [()] and 1 gives [(1,)].
C4_Feasible2 ==
    (fn = 2 /\ a_max = 0) =>
        /\ num >= 2 => (res = <<>> <=> Fermat(num))
        /\ num = 0 => res = << <<>> >>
        /\ num = 1 => res = << <<1>> >>

C4_Witness == fn = 2 /\ a_max = 0 /\ num >= 2 /\ num % 4 # 3 /\ ~cacheHit /\ res = <<>>

\* C5 (feasibility, K = 3): with no upper bound the result is empty iff
\* num = 4^a * (8b + 7); in particular 0 gives a non-empty result.
C5_Feasible3 ==
    (fn = 3 /\ a_max = 0) => (res = <<>> <=> Legendre(num))

C5_Witness == fn = 3 /\ a_max = 0 /\ num % 4 = 0 /\ num > 0 /\ res = <<>>

\* C6 (no duplicates): the returned list contains no tuple twice.
C6_NoDuplicates == Cardinality(ToSet(res)) = Len(res)

C6_Witness == fn = 4 /\ Len(res) >= 3

\* C7 (example, as stated): the tuples returned by decomposeBy4(2) expand to
\* 72 signed and permuted forms.
C7_Expand72 ==
    (fn = 4 /\ num = 2 /\ a_max = 0) => expandedCount(res, Len(res)) = 72

\* C7 (example, amended): decomposeBy4(2) returns [(1, 1)], which expands to
\* 24 signed and permuted forms, Jacobi's count 24 * 1 for the even number 2.
C7_Expand24 ==
    (fn = 4 /\ num = 2 /\ a_max = 0) =>
        /\ res = << <<1, 1>> >>
        /\ expandedCount(res, Len(res)) = 24
        /\ calcDecompositionsBy4Count(2) = 24

C7_Witness == fn = 4 /\ num = 2 /\ a_max = 0 /\ noSum2sq # {}

\* C8 (cache is an optimisation): the list a call returns is the list the
\* same call returns when the cache is empty.
C8_CacheTransparent ==
    fn # 0 => res = Fresh(fn, num, a_max).res

C8_Witness == cacheHit /\ fn = 4 /\ Len(res) >= 2

C9_Inv ==
    \A x \in noSum2sq : x >= 2 /\ x % 4 # 3 /\ Tuples(2, x) = {}

C9_Step ==
    /\ noSum2sq \subseteq noSum2sq'
    /\ (/\ fn' = 2
        /\ \/ num' \in {0, 1}
           \/ num' % 4 = 3
           \/ num' \in noSum2sq
           \/ Tuples(2, num') # {})
       => noSum2sq' = noSum2sq

\* C9 (cache invariant): every cached number is >= 2, is not 3 mod 4 and has
\* no two-square representation; no call removes an element, and a
\* decomposeBy2 call for 0, 1, a number that is 3 mod 4, a cached number or a
\* representable number leaves the cache unchanged.
C9_Cache == []C9_Inv /\ [][C9_Step]_vars

C9_Witness == fn = 2 /\ cacheHit /\ Cardinality(noSum2sq) >= 2

\* C10 (search lower bound): when decomposeByK(num), num >= K, no upper
\* bound, reaches its candidate loop, the smallest candidate it examines is
\* ceil(sqrt(num / K)) and no candidate i with K * i * i < num is tried.
C10_LowerBound ==
    (fn # 0 /\ a_max = 0 /\ num >= fn /\ cands # <<>>) =>
        /\ cands[Len(cands)] = CeilSqrtDiv(num, fn)
        /\ \A k \in 1..Len(cands) : fn * cands[k] * cands[k] >= num

====
